---------------------------- MODULE Spec2Model ----------------------------
(***************************************************************************)
(* The GUI bridge of Compactor (src/gui.rs): the command interceptor run   *)
(* by the webview on the UI thread, the bounded command mailbox between    *)
(* the UI thread and the backend worker, the status channel and the        *)
(* one-shot folder query (GuiWrapper), and the pump loop / shutdown        *)
(* sequence of spawn_gui.                                                  *)
(*                                                                         *)
(* Strings the code takes apart (the exclude patterns, the texts that are  *)
(* encoded for the page) are sequences of one-character strings.  The      *)
(* Config store, the glob validator and the backend's run loop are not     *)
(* part of gui.rs; they are modelled from the specification.               *)
(***************************************************************************)
EXTENDS Naturals, Sequences, FiniteSets, TLC

VARIABLES
    running,     \* the AtomicBool `running` (gui.rs:172)
    pcMain,      \* where the thread running spawn_gui is
    uiAlive,     \* the WebView exists (Handle::dispatch succeeds)
    txAlive,     \* from_gui, the Sender owned by the invoke_handler closure
    rxAlive,     \* from_gui_rx, the Receiver owned by the Backend
    mailbox,     \* the entries pending in bounded::<GuiRequest>(128)
    pending,     \* the command a blocked from_gui.send is holding
    dispatchQ,   \* closures handed to Handle::dispatch and not yet run
    uiSeen,      \* what Response.dispatch has been evaluated with, in order
    cfgMem,      \* the Config store's current (in-memory) settings
    cfgDisk,     \* the settings as last persisted
    lastArg,     \* the argument of the invoke_handler call of this step
    effects,     \* what that call did, in program order
    invoked,     \* number of invoke_handler calls in this run
    forwarded,   \* every command handed to from_gui.send, in order
    received,    \* every command the worker dequeued, in order
    lastRecv,    \* outcome of the worker's latest dequeue
    wpc,         \* where the backend worker thread is
    waitSlot,    \* the folder query the worker is blocked on
    slots,       \* one record per choose_folder call
    notified,    \* number of notifications the worker emitted
    wire         \* a notification on its way through encoding and decoding

vars == <<running, pcMain, uiAlive, txAlive, rxAlive, mailbox, pending,
          dispatchQ, uiSeen, cfgMem, cfgDisk, lastArg, effects, invoked,
          forwarded, received, lastRecv, wpc, waitSlot, slots,
          notified, wire>>

----------------------------------------------------------------------------
(* Bounds of the model and constants of the program.                       *)

MaxInvoke == 1      \* invoke_handler calls in a run of the whole bridge
MaxNotify == 1      \* notifications the worker emits in a run
MaxSlots == 1       \* choose_folder calls in a run of the whole bridge
MaxRoute == 2       \* invoke_handler calls in a run of the interceptor
MaxQueries == 2     \* choose_folder calls in a run of the folder query
MaxBurst == 3       \* invoke_handler calls in a backlog run
Backlog == 126      \* entries already pending where a backlog run starts
MaxStatus == 3      \* notifications the worker emits in a notification run
MaxDirect == 1      \* invoke_handler calls in a notification run
MaxText == 2        \* characters of a status line in an encoding run

MailboxCap == 128   \* bounded::<GuiRequest>(128)
SlotCap == 1        \* bounded::<Option<PathBuf>>(1)

----------------------------------------------------------------------------
(* Text.                                                                   *)

NL == "\n"

\* str::split('\n'): the pieces between the separators; always at least one.
RECURSIVE SplitFrom(_, _)
SplitFrom(s, cur) ==
    IF s = <<>> THEN <<cur>>
    ELSE IF Head(s) = NL THEN <<cur>> \o SplitFrom(Tail(s), <<>>)
    ELSE SplitFrom(Tail(s), Append(cur, Head(s)))

Split(s) == SplitFrom(s, <<>>)

\* [String]::join("\n")
RECURSIVE JoinNL(_)
JoinNL(list) ==
    IF list = <<>> THEN <<>>
    ELSE IF Len(list) = 1 THEN list[1]
    ELSE list[1] \o <<NL>> \o JoinNL(Tail(list))

----------------------------------------------------------------------------
(* The Config collaborator (crate::config, crate::persistence).            *)

\* The compression schemes, by position, and their canonical names.
SchemeNames == <<"XPRESS4K", "XPRESS8K", "XPRESS16K", "LZX">>
Schemes == 1..Len(SchemeNames)
DefaultScheme == 2

\* <Compression as FromStr>::from_str
ParseCompression(name) ==
    IF \E c \in Schemes : SchemeNames[c] = name
    THEN [ok |-> TRUE, val |-> CHOOSE c \in Schemes : SchemeNames[c] = name]
    ELSE [ok |-> FALSE, val |-> 0]

\* Result::unwrap_or_default
UnwrapOrDefault(r) == IF r.ok THEN r.val ELSE DefaultScheme

\* <Compression as Display>::to_string
CompressionToString(c) == SchemeNames[c]

\* Config::default()
DefaultConfig ==
    [decimal |-> FALSE, compression |-> DefaultScheme,
     excludes |-> << <<"*", "z">>, <<"w", "*">> >>]

\* A glob the validator refuses: a character class that is never closed.
BadGlob(p) == \E i \in 1..Len(p) : p[i] = "[" /\ \A j \in (i+1)..Len(p) : p[j] /= "]"

\* Config::globset(): Err(message) when a pattern does not compile.
Globset(s) ==
    IF \E i \in 1..Len(s.excludes) : BadGlob(s.excludes[i])
    THEN [ok |-> FALSE, msg |-> "glob"]
    ELSE [ok |-> TRUE, msg |-> ""]

----------------------------------------------------------------------------
(* GuiRequest: the messages received from the GUI, and their parsing.      *)

\* The fields each variant of GuiRequest carries besides the "type" tag.
RequestFields(type) ==
    CASE type = "OpenUrl" -> {"url"}
      [] type = "SaveConfig" -> {"decimal", "compression", "excludes"}
      [] OTHER -> {}

RequestTypes ==
    {"OpenUrl", "SaveConfig", "ResetConfig", "ChooseFolder", "Compress",
     "Decompress", "Pause", "Resume", "Analyse", "Stop", "Quit"}

\* The variants the interceptor has no arm of its own for.
ForwardedTypes ==
    {"ChooseFolder", "Compress", "Decompress", "Pause", "Resume", "Analyse",
     "Stop", "Quit"}

\* serde_json::from_str::<GuiRequest>: the tag selects the variant, the
\* variant's fields must be there, anything else in the object is ignored.
FromStr(arg) ==
    IF /\ "type" \in DOMAIN arg
       /\ arg.type \in RequestTypes
       /\ RequestFields(arg.type) \subseteq DOMAIN arg
    THEN [ok |-> TRUE,
          val |-> [f \in {"type"} \cup RequestFields(arg.type) |-> arg[f]]]
    ELSE [ok |-> FALSE, val |-> [type |-> "none"]]

----------------------------------------------------------------------------
(* GuiResponse: the messages sent to the GUI.                              *)

\* GuiResponse::Config built from a Config, as the code builds it in three
\* places.
ConfigResponse(s) ==
    [type |-> "Config", decimal |-> s.decimal,
     compression |-> CompressionToString(s.compression),
     excludes |-> JoinNL(s.excludes)]

VersionResponse == [type |-> "Version", date |-> "date", version |-> "0.0-sha"]

\* GuiWrapper::status(msg, None): the worker's n-th status line.
StatusLine(n) == [type |-> "Status", status |-> n, pct |-> "none"]

\* What the worker may report through the status channel.
WorkerResponses ==
    {[type |-> "Status", status |-> "busy", pct |-> "none"],
     [type |-> "Paused"]}


----------------------------------------------------------------------------
(* What the UI can send, and what the environment can answer.              *)

SaveValid ==
    [type |-> "SaveConfig", decimal |-> TRUE, compression |-> "LZX",
     excludes |-> <<"a", NL, "*">>]

SaveBadGlob ==
    [type |-> "SaveConfig", decimal |-> TRUE, compression |-> "LZX",
     excludes |-> <<"a", NL, "[">>]

SaveUnknownScheme ==
    [type |-> "SaveConfig", decimal |-> FALSE, compression |-> "ZIP",
     excludes |-> <<>>]

\* The payload the UI holds after it was shown the default settings.
SaveDefaults ==
    [type |-> "SaveConfig", decimal |-> DefaultConfig.decimal,
     compression |-> CompressionToString(DefaultConfig.compression),
     excludes |-> JoinNL(DefaultConfig.excludes)]

SaveMessages == {SaveValid, SaveBadGlob, SaveUnknownScheme, SaveDefaults}

\* Text that is no GuiRequest: not JSON, an unknown tag, a missing field.
BadMessages ==
    {[garbage |-> "{"], [type |-> "Bogus"], [type |-> "OpenUrl"]}

LocalMessages ==
    SaveMessages \cup {[type |-> "ResetConfig"], [type |-> "OpenUrl", url |-> "u"]}

ForwardedMessages ==
    {[type |-> t] : t \in ForwardedTypes} \cup {[type |-> "Compress", extra |-> "x"]}

AllMessages == LocalMessages \cup ForwardedMessages \cup BadMessages

\* The messages of the runs that follow the whole bridge.
BridgeMessages ==
    {[type |-> "Compress"], [type |-> "Quit"], [type |-> "ResetConfig"]}

\* Option<PathBuf>
None == [some |-> FALSE, path |-> ""]
Some(p) == [some |-> TRUE, path |-> p]

\* wfd::open_dialog(..).map(|res| res.selected_file_path).ok()
PickerOutcomes == {None, Some("C:/a"), Some("C:/b")}

\* The settings persistence::init() may have loaded.
InitConfigs ==
    {DefaultConfig,
     [decimal |-> TRUE, compression |-> 4, excludes |-> << <<"a">> >>]}

NoCmd == [type |-> "none"]
\* No notification is being followed through its encoding.
NoWire == [stage |-> "idle"]
NoArg == [none |-> TRUE]

----------------------------------------------------------------------------
(* Handle::dispatch and the two ways a GuiResponse reaches the UI.         *)

EvalClosure(msg) == [kind |-> "eval", msg |-> msg, slot |-> 0]
PickClosure(k) == [kind |-> "pick", msg |-> [type |-> "none"], slot |-> k]

\* Fault: the closure is put in front of the closures already queued.
DispatchInFront(q, alive, closure) == IF alive THEN <<closure>> \o q ELSE q

\* Handle::dispatch: Err (the closure is dropped) once the WebView is gone,
\* otherwise the closure is queued for the UI thread.
Dispatch(q, alive, closure) == IF alive THEN Append(q, closure) ELSE q

\* Fault: the notification is queued whether or not the webview is there.
SendUnchecked(q, alive, msg) == Append(q, EvalClosure(msg))

\* GuiWrapper::send: the error of dispatch is discarded.
Send(q, alive, msg) == Dispatch(q, alive, EvalClosure(msg))

\* message_dispatch: evaluated at once, on the UI thread.
MessageDispatch(msg) == [op |-> "eval", msg |-> msg]

Modal(title) == [op |-> "modal", title |-> title]

\* The notifications among the effects of a handler call, in order.
Evals(es) == SelectSeq(es, LAMBDA e : e.op = "eval")
Modals(es) == SelectSeq(es, LAMBDA e : e.op = "modal")

----------------------------------------------------------------------------
(* The invoke_handler closure of spawn_gui: its arms.  Each yields what    *)
(* the arm did, in program order, and the Config store it leaves.          *)

\* GuiRequest::OpenUrl: the url is opened by the system.
OpenUrlArm(url, mem, disk) ==
    [effects |-> <<[op |-> "open", url |-> url]>>, mem |-> mem, disk |-> disk,
     send |-> NoCmd]

\* Fault: the settings are replaced before the exclude patterns are checked.
SaveConfigArmReplaceFirst(decimal, compression, excludes, saveOk, mem, disk) ==
    LET s == [decimal |-> decimal,
              compression |-> UnwrapOrDefault(ParseCompression(compression)),
              excludes |-> Split(excludes)]
    IN  IF ~Globset(s).ok
        THEN [effects |-> <<[op |-> "replace", cfg |-> s], Modal("Settings Error")>>,
              mem |-> s, disk |-> disk, send |-> NoCmd]
        ELSE [effects |-> <<MessageDispatch(ConfigResponse(s)),
                            [op |-> "replace", cfg |-> s],
                            [op |-> "save", ok |-> saveOk]>>
                          \o (IF saveOk THEN <<>> ELSE <<Modal("Settings Error")>>),
              mem |-> s,
              disk |-> IF saveOk THEN s ELSE disk,
              send |-> NoCmd]

\* Fault: the settings are saved first and replaced only when the save
\* succeeded.
SaveConfigArmSaveFirst(decimal, compression, excludes, saveOk, mem, disk) ==
    LET s == [decimal |-> decimal,
              compression |-> UnwrapOrDefault(ParseCompression(compression)),
              excludes |-> Split(excludes)]
    IN  IF ~Globset(s).ok
        THEN [effects |-> <<Modal("Settings Error")>>,
              mem |-> mem, disk |-> disk, send |-> NoCmd]
        ELSE [effects |-> <<MessageDispatch(ConfigResponse(s)),
                            [op |-> "save", ok |-> saveOk]>>
                          \o (IF saveOk THEN <<[op |-> "replace", cfg |-> s]>>
                              ELSE <<Modal("Settings Error")>>),
              mem |-> IF saveOk THEN s ELSE mem,
              disk |-> IF saveOk THEN s ELSE disk,
              send |-> NoCmd]

\* Fault: a scheme name that does not parse is refused like a bad pattern.
SaveConfigArmRejectsUnknown(decimal, compression, excludes, saveOk, mem, disk) ==
    LET s == [decimal |-> decimal,
              compression |-> UnwrapOrDefault(ParseCompression(compression)),
              excludes |-> Split(excludes)]
    IN  IF ~Globset(s).ok \/ ~ParseCompression(compression).ok
        THEN [effects |-> <<Modal("Settings Error")>>,
              mem |-> mem, disk |-> disk, send |-> NoCmd]
        ELSE [effects |-> <<MessageDispatch(ConfigResponse(s)),
                            [op |-> "replace", cfg |-> s],
                            [op |-> "save", ok |-> saveOk]>>
                          \o (IF saveOk THEN <<>> ELSE <<Modal("Settings Error")>>),
              mem |-> s,
              disk |-> IF saveOk THEN s ELSE disk,
              send |-> NoCmd]

\* GuiRequest::SaveConfig: build the settings, check the exclude patterns,
\* then notify the page, replace the settings and save them.
SaveConfigArm(decimal, compression, excludes, saveOk, mem, disk) ==
    LET s == [decimal |-> decimal,
              compression |-> UnwrapOrDefault(ParseCompression(compression)),
              excludes |-> Split(excludes)]
    IN  IF ~Globset(s).ok
        THEN [effects |-> <<Modal("Settings Error")>>,
              mem |-> mem, disk |-> disk, send |-> NoCmd]
        ELSE [effects |-> <<MessageDispatch(ConfigResponse(s)),
                            [op |-> "replace", cfg |-> s],
                            [op |-> "save", ok |-> saveOk]>>
                          \o (IF saveOk THEN <<>> ELSE <<Modal("Settings Error")>>),
              mem |-> s,
              disk |-> IF saveOk THEN s ELSE disk,
              send |-> NoCmd]

\* Fault: the defaults are installed and saved, but the page is not told.
ResetConfigArmSilent(saveOk, mem, disk) ==
    LET s == DefaultConfig
    IN  [effects |-> <<[op |-> "replace", cfg |-> s],
                       [op |-> "save", ok |-> saveOk]>>
                     \o (IF saveOk THEN <<>> ELSE <<Modal("Settings Error")>>),
         mem |-> s,
         disk |-> IF saveOk THEN s ELSE disk,
         send |-> NoCmd]

\* GuiRequest::ResetConfig: the same steps on the default settings.
ResetConfigArm(saveOk, mem, disk) ==
    LET s == DefaultConfig
    IN  [effects |-> <<MessageDispatch(ConfigResponse(s)),
                       [op |-> "replace", cfg |-> s],
                       [op |-> "save", ok |-> saveOk]>>
                     \o (IF saveOk THEN <<>> ELSE <<Modal("Settings Error")>>),
         mem |-> s,
         disk |-> IF saveOk THEN s ELSE disk,
         send |-> NoCmd]

\* Any other request goes to the worker's mailbox.
ForwardArm(msg, mem, disk) ==
    [effects |-> <<[op |-> "send", cmd |-> msg]>>, mem |-> mem, disk |-> disk,
     send |-> msg]

\* Fault: a message that does not parse is answered with a notification.
ParseErrorArmNotifies(mem, disk) ==
    [effects |-> <<[op |-> "eprintln"], MessageDispatch([type |-> "Status"])>>,
     mem |-> mem, disk |-> disk, send |-> NoCmd]

\* Err(err): the message did not parse; it is logged and dropped.
ParseErrorArm(mem, disk) ==
    [effects |-> <<[op |-> "eprintln"]>>, mem |-> mem, disk |-> disk,
     send |-> NoCmd]

\* Fault: the match has no arm for ResetConfig, which falls to the
\* forwarding arm.
RouteResetForwarded(arg, saveOk, mem, disk) ==
    LET r == FromStr(arg)
    IN  CASE r.ok /\ r.val.type = "OpenUrl" -> OpenUrlArm(r.val.url, mem, disk)
          [] r.ok /\ r.val.type = "SaveConfig" ->
                SaveConfigArm(r.val.decimal, r.val.compression, r.val.excludes,
                              saveOk, mem, disk)
          [] r.ok /\ r.val.type \notin {"OpenUrl", "SaveConfig"} ->
                ForwardArm(r.val, mem, disk)
          [] ~r.ok -> ParseErrorArm(mem, disk)

\* The match of the handler.
Route(arg, saveOk, mem, disk) ==
    LET r == FromStr(arg)
    IN  CASE r.ok /\ r.val.type = "OpenUrl" -> OpenUrlArm(r.val.url, mem, disk)
          [] r.ok /\ r.val.type = "SaveConfig" ->
                SaveConfigArm(r.val.decimal, r.val.compression, r.val.excludes,
                              saveOk, mem, disk)
          [] r.ok /\ r.val.type = "ResetConfig" -> ResetConfigArm(saveOk, mem, disk)
          [] r.ok /\ r.val.type \notin {"OpenUrl", "SaveConfig", "ResetConfig"} ->
                ForwardArm(r.val, mem, disk)
          [] ~r.ok -> ParseErrorArm(mem, disk)

\* Fault: the command is put in front of the pending entries.
MailboxSendInFront(q, rx, cmd) ==
    IF ~rx THEN [outcome |-> "disconnected", q |-> q]
    ELSE IF Len(q) < MailboxCap THEN [outcome |-> "sent", q |-> <<cmd>> \o q]
    ELSE [outcome |-> "blocked", q |-> q]

\* Fault: a full mailbox makes room by dropping its oldest entry.
MailboxSendLossy(q, rx, cmd) ==
    IF ~rx THEN [outcome |-> "disconnected", q |-> q]
    ELSE IF Len(q) < MailboxCap THEN [outcome |-> "sent", q |-> Append(q, cmd)]
    ELSE [outcome |-> "sent", q |-> Append(Tail(q), cmd)]

\* crossbeam's Sender::send on the bounded mailbox: refused when the
\* receiver is gone, done when there is room, blocked otherwise.
MailboxSend(q, rx, cmd) ==
    IF ~rx THEN [outcome |-> "disconnected", q |-> q]
    ELSE IF Len(q) < MailboxCap THEN [outcome |-> "sent", q |-> Append(q, cmd)]
    ELSE [outcome |-> "blocked", q |-> q]


----------------------------------------------------------------------------
(* One-shot folder queries: one record per choose_folder call.             *)
(*   tx     "queued": the picker closure (which owns tx) waits in the UI    *)
(*          thread's queue; "dropped": the closure ran or was dropped       *)
(*   rx     "held" by the caller, or "dropped"                             *)
(*   buf    what is in the bounded(1) channel                              *)
(*   picked what this call's own picker closure produced (history)         *)
(*   got    what this call's receiver returned as values (history)         *)

NewSlot(queued) ==
    [tx |-> IF queued THEN "queued" ELSE "dropped", rx |-> "held",
     buf |-> <<>>, picked |-> <<>>, got |-> <<>>]

\* Fault: only a chosen path is sent; on cancel the sender is just dropped.
SlotWriteSkipsNone(sl, value) ==
    [sl EXCEPT !.buf = IF sl.rx = "held" /\ Len(sl.buf) < SlotCap /\ value.some
                       THEN Append(sl.buf, value) ELSE sl.buf,
               !.picked = Append(sl.picked, value),
               !.tx = "dropped"]

\* tx.send(value) in the picker closure, then the closure (and tx) is gone.
SlotWrite(sl, value) ==
    [sl EXCEPT !.buf = IF sl.rx = "held" /\ Len(sl.buf) < SlotCap
                       THEN Append(sl.buf, value) ELSE sl.buf,
               !.picked = Append(sl.picked, value),
               !.tx = "dropped"]

\* Fault: one channel serves every call, so a closure answers whichever
\* receiver is not its own.
PickerRunCrossed(sls, k, v) ==
    LET j == IF k = 1 THEN Len(sls) ELSE 1
    IN  [i \in 1..Len(sls) |->
            [sls[i] EXCEPT
                !.buf = IF i = j /\ Len(sls[i].buf) < SlotCap
                        THEN Append(sls[i].buf, v) ELSE sls[i].buf,
                !.picked = IF i = k THEN Append(sls[i].picked, v) ELSE sls[i].picked,
                !.tx = IF i = k THEN "dropped" ELSE sls[i].tx]]

\* The picker closure of call k runs on the UI thread with outcome v.
PickerRun(sls, k, v) == [sls EXCEPT ![k] = SlotWrite(sls[k], v)]

\* Receiver::recv returns: a buffered value, or the disconnection.
SlotCanReturn(sl) == sl.buf /= <<>> \/ sl.tx = "dropped"

SlotRead(sl) ==
    IF sl.buf /= <<>>
    THEN [sl EXCEPT !.buf = Tail(sl.buf), !.got = Append(sl.got, Head(sl.buf))]
    ELSE sl

----------------------------------------------------------------------------
(* Initial state: spawn_gui has installed the interrupt handler, created   *)
(* the mailbox, built the webview and run persistence::init() (line 276).  *)

Init ==
    /\ running = TRUE
    /\ pcMain = "new"
    /\ uiAlive = TRUE
    /\ txAlive = TRUE
    /\ rxAlive = TRUE
    /\ mailbox = <<>>
    /\ pending = NoCmd
    /\ dispatchQ = <<>>
    /\ uiSeen = <<>>
    /\ cfgDisk \in InitConfigs
    /\ cfgMem = cfgDisk
    /\ lastArg = NoArg
    /\ effects = <<>>
    /\ invoked = 0
    /\ forwarded = <<>>
    /\ received = <<>>
    /\ lastRecv = "none"
    /\ wpc = "unstarted"
    /\ waitSlot = 0
    /\ slots = <<>>
    /\ notified = 0
    /\ wire = NoWire

uiVars == <<uiAlive, txAlive, dispatchQ, uiSeen>>
cfgVars == <<cfgMem, cfgDisk>>
handlerVars == <<lastArg, effects, invoked>>
boxVars == <<mailbox, pending, forwarded>>
workerVars == <<rxAlive, received, lastRecv, wpc, waitSlot, notified>>

----------------------------------------------------------------------------
(* The thread that runs spawn_gui.                                         *)

\* Fault: the handler toggles the flag instead of clearing it.
InterruptToggles ==
    /\ running' = ~running
    /\ UNCHANGED <<wire, pcMain, uiVars, cfgVars, handlerVars, boxVars, workerVars,
                   slots>>

\* The ctrlc handler: r.store(false).
Interrupt ==
    /\ running' = FALSE
    /\ UNCHANGED <<wire, pcMain, uiVars, cfgVars, handlerVars, boxVars, workerVars,
                   slots>>

\* Fault: config() is called before version().
GuiNewConfigFirst ==
    /\ pcMain = "new"
    /\ dispatchQ' = Send(Send(dispatchQ, uiAlive, ConfigResponse(cfgMem)),
                         uiAlive, VersionResponse)
    /\ pcMain' = "spawn"
    /\ UNCHANGED <<wire, running, uiAlive, txAlive, uiSeen, cfgVars, handlerVars,
                   boxVars, workerVars, slots>>

\* GuiWrapper::new: version(), then config().
GuiNew ==
    /\ pcMain = "new"
    /\ dispatchQ' = Send(Send(dispatchQ, uiAlive, VersionResponse),
                         uiAlive, ConfigResponse(cfgMem))
    /\ pcMain' = "spawn"
    /\ UNCHANGED <<wire, running, uiAlive, txAlive, uiSeen, cfgVars, handlerVars,
                   boxVars, workerVars, slots>>

\* Backend::new(gui, from_gui_rx) and std::thread::spawn.
SpawnBackend ==
    /\ pcMain = "spawn"
    /\ wpc' = "idle"
    /\ pcMain' = "check"
    /\ UNCHANGED <<wire, running, uiVars, cfgVars, handlerVars, boxVars, rxAlive,
                   received, lastRecv, waitSlot, notified, slots>>

\* Fault: the loop head does not read the flag.
LoopHeadIgnoresFlag ==
    /\ pcMain = "check"
    /\ pcMain' = "step"
    /\ lastArg' = NoArg
    /\ effects' = <<>>
    /\ UNCHANGED <<wire, running, uiVars, cfgVars, invoked, boxVars, workerVars,
                   slots>>

\* while running.load(..): the head of the pump loop.
LoopHead ==
    /\ pcMain = "check"
    /\ pcMain' = IF running THEN "step" ELSE "teardown"
    /\ lastArg' = NoArg
    /\ effects' = <<>>
    /\ UNCHANGED <<wire, running, uiVars, cfgVars, invoked, boxVars, workerVars,
                   slots>>

\* webview.step() delivers a message of the page to invoke_handler.
InvokeHandler(arg, saveOk) ==
    /\ pcMain = "step"
    /\ invoked' = invoked + 1
    /\ lastArg' = arg
    /\ LET r == Route(arg, saveOk, cfgMem, cfgDisk)
           m == MailboxSend(mailbox, rxAlive, r.send)
       IN  /\ effects' = r.effects
           /\ cfgMem' = r.mem
           /\ cfgDisk' = r.disk
           /\ uiSeen' = uiSeen \o [i \in 1..Len(Evals(r.effects)) |-> Evals(r.effects)[i].msg]
           /\ IF r.send = NoCmd
              THEN /\ pcMain' = "check"
                   /\ UNCHANGED boxVars
              ELSE /\ forwarded' = Append(forwarded, r.send)
                   /\ mailbox' = m.q
                   /\ pending' = IF m.outcome = "blocked" THEN r.send ELSE NoCmd
                   /\ pcMain' = CASE m.outcome = "sent" -> "check"
                                  [] m.outcome = "blocked" -> "sending"
                                  [] m.outcome = "disconnected" -> "panicked"
    /\ UNCHANGED <<wire, running, uiAlive, txAlive, dispatchQ, workerVars, slots>>

\* The blocked from_gui.send goes on: room was made, or the receiver went.
SendResume ==
    /\ pcMain = "sending"
    /\ LET m == MailboxSend(mailbox, rxAlive, pending)
       IN  /\ m.outcome /= "blocked"
           /\ mailbox' = m.q
           /\ pending' = NoCmd
           /\ pcMain' = IF m.outcome = "sent" THEN "check" ELSE "panicked"
    /\ UNCHANGED <<wire, running, uiVars, cfgVars, handlerVars, forwarded,
                   workerVars, slots>>

\* webview.step() runs the closure at the head of the dispatch queue.
StepDispatch ==
    /\ pcMain = "step"
    /\ dispatchQ /= <<>>
    /\ dispatchQ' = Tail(dispatchQ)
    /\ pcMain' = "check"
    /\ LET c == Head(dispatchQ)
       IN  IF c.kind = "eval"
           THEN /\ uiSeen' = Append(uiSeen, c.msg)
                /\ UNCHANGED slots
           ELSE /\ \E v \in PickerOutcomes : slots' = PickerRun(slots, c.slot, v)
                /\ UNCHANGED uiSeen
    /\ UNCHANGED <<wire, running, uiAlive, txAlive, cfgVars, handlerVars, boxVars,
                   workerVars>>

\* webview.step() returns Some(Ok(_)) or Some(Err(_)) with nothing of ours run.
StepIdle ==
    /\ pcMain = "step"
    /\ pcMain' = "check"
    /\ UNCHANGED <<wire, running, uiVars, cfgVars, handlerVars, boxVars, workerVars,
                   slots>>

\* webview.step() returns None: break.
StepFinished ==
    /\ pcMain = "step"
    /\ pcMain' = "teardown"
    /\ UNCHANGED <<wire, running, uiVars, cfgVars, handlerVars, boxVars, workerVars,
                   slots>>

\* Fault: the handler's sender outlives the webview.
IntoInnerKeepsSender ==
    /\ pcMain = "teardown"
    /\ uiAlive' = FALSE
    /\ txAlive' = txAlive
    /\ pcMain' = "join"
    /\ UNCHANGED <<wire, running, dispatchQ, uiSeen, cfgVars, handlerVars, boxVars,
                   workerVars, slots>>

\* webview.into_inner(): the WebView goes, and with it the invoke_handler
\* closure that owns from_gui.  Closures still queued are never run.
IntoInner ==
    /\ pcMain = "teardown"
    /\ uiAlive' = FALSE
    /\ txAlive' = FALSE
    /\ pcMain' = "join"
    /\ UNCHANGED <<wire, running, dispatchQ, uiSeen, cfgVars, handlerVars, boxVars,
                   workerVars, slots>>

\* bg.join() returns once the worker thread has ended.
BgJoin ==
    /\ pcMain = "join"
    /\ wpc = "ended"
    /\ pcMain' = "done"
    /\ UNCHANGED <<wire, running, uiVars, cfgVars, handlerVars, boxVars, workerVars,
                   slots>>


----------------------------------------------------------------------------
(* The backend worker thread (Backend::run), the consumer of the mailbox   *)
(* and the caller of the GuiWrapper.                                       *)

\* The commands that end the worker's loop.
EndingTypes == {"Stop", "Quit"}

\* from_gui_rx.recv() returns the oldest pending command.
WorkerRecv ==
    /\ wpc = "idle"
    /\ mailbox /= <<>>
    /\ mailbox' = Tail(mailbox)
    /\ received' = Append(received, Head(mailbox))
    /\ lastRecv' = "command"
    /\ wpc' = IF Head(mailbox).type \in EndingTypes THEN "quitting" ELSE "idle"
    /\ UNCHANGED <<wire, running, pcMain, uiVars, cfgVars, handlerVars, pending,
                   forwarded, rxAlive, waitSlot, notified, slots>>

\* from_gui_rx.recv() returns Err: nothing pending and the sender is gone.
WorkerRecvClosed ==
    /\ wpc = "idle"
    /\ mailbox = <<>>
    /\ ~txAlive
    /\ lastRecv' = "closed"
    /\ wpc' = "quitting"
    /\ UNCHANGED <<wire, running, pcMain, uiVars, cfgVars, handlerVars, boxVars,
                   rxAlive, received, waitSlot, notified, slots>>

\* run() returns: the Backend is dropped, and with it from_gui_rx and every
\* folder receiver it still holds.
WorkerExit ==
    /\ wpc = "quitting"
    /\ wpc' = "ended"
    /\ rxAlive' = FALSE
    /\ slots' = [k \in 1..Len(slots) |-> [slots[k] EXCEPT !.rx = "dropped"]]
    /\ UNCHANGED <<wire, running, pcMain, uiVars, cfgVars, handlerVars, boxVars,
                   received, lastRecv, waitSlot, notified>>

\* The worker reports through GuiWrapper::send.
WorkerNotify(msg) ==
    /\ wpc = "idle"
    /\ notified' = notified + 1
    /\ dispatchQ' = Send(dispatchQ, uiAlive, msg)
    /\ UNCHANGED <<wire, running, pcMain, uiAlive, txAlive, uiSeen, cfgVars,
                   handlerVars, boxVars, rxAlive, received, lastRecv, wpc,
                   waitSlot, slots>>

\* GuiWrapper::choose_folder, called by the worker: a fresh bounded(1)
\* channel whose sender goes into the dispatched picker closure.
ChooseFolder ==
    /\ wpc = "idle"
    /\ slots' = Append(slots, NewSlot(uiAlive))
    /\ dispatchQ' = Dispatch(dispatchQ, uiAlive, PickClosure(Len(slots) + 1))
    /\ UNCHANGED <<wire, running, pcMain, uiAlive, txAlive, uiSeen, cfgVars,
                   handlerVars, boxVars, workerVars>>

\* The worker calls recv on a folder receiver it holds.
WorkerAwait(k) ==
    /\ wpc = "idle"
    /\ k \in 1..Len(slots)
    /\ slots[k].rx = "held"
    /\ wpc' = "waiting"
    /\ waitSlot' = k
    /\ UNCHANGED <<wire, running, pcMain, uiVars, cfgVars, handlerVars, boxVars,
                   rxAlive, received, lastRecv, notified, slots>>

\* That recv returns.
WorkerChosen ==
    /\ wpc = "waiting"
    /\ SlotCanReturn(slots[waitSlot])
    /\ slots' = [slots EXCEPT ![waitSlot] = SlotRead(slots[waitSlot])]
    /\ wpc' = "idle"
    /\ waitSlot' = 0
    /\ UNCHANGED <<wire, running, pcMain, uiVars, cfgVars, handlerVars, boxVars,
                   rxAlive, received, lastRecv, notified>>

----------------------------------------------------------------------------
(* The whole bridge from its construction.  A send can block only with 128 *)
(* entries pending, which takes more handler calls than these runs make;   *)
(* SendResume is part of the backlog runs below.                           *)

Next ==
    \/ Interrupt
    \/ GuiNew
    \/ SpawnBackend
    \/ LoopHead
    \/ \E arg \in BridgeMessages, saveOk \in BOOLEAN :
          invoked < MaxInvoke /\ InvokeHandler(arg, saveOk)
    \/ StepDispatch
    \/ StepIdle
    \/ StepFinished
    \/ IntoInner
    \/ BgJoin
    \/ WorkerRecv
    \/ WorkerRecvClosed
    \/ WorkerExit
    \/ \E msg \in WorkerResponses : notified < MaxNotify /\ WorkerNotify(msg)
    \/ Len(slots) < MaxSlots /\ ChooseFolder
    \/ \E k \in 1..Len(slots) : WorkerAwait(k)
    \/ WorkerChosen

Spec == Init /\ [][Next]_vars

----------------------------------------------------------------------------
(* The interceptor under every kind of message, with a worker that only    *)
(* consumes the mailbox.                                                   *)

NextRoute ==
    \/ GuiNew
    \/ SpawnBackend
    \/ LoopHead
    \/ \E arg \in AllMessages, saveOk \in BOOLEAN :
          invoked < MaxRoute /\ InvokeHandler(arg, saveOk)
    \/ StepDispatch
    \/ WorkerRecv
    \/ WorkerExit

SpecRoute == Init /\ [][NextRoute]_vars

----------------------------------------------------------------------------
(* Backlog runs: the pump is running, the worker has not come back to the  *)
(* mailbox for a while and the page has sent Backlog commands meanwhile.   *)

BacklogTypes == <<"Compress", "Pause", "Analyse", "Resume">>

BacklogEntries ==
    [i \in 1..Backlog |-> [type |-> BacklogTypes[(i % Len(BacklogTypes)) + 1]]]

BacklogMessages == {[type |-> "Compress"], [type |-> "Pause"], [type |-> "Quit"]}

InitBacklog ==
    /\ running = TRUE
    /\ pcMain = "check"
    /\ uiAlive = TRUE
    /\ txAlive = TRUE
    /\ rxAlive = TRUE
    /\ mailbox = BacklogEntries
    /\ pending = NoCmd
    /\ dispatchQ = <<>>
    /\ cfgDisk = DefaultConfig
    /\ cfgMem = cfgDisk
    /\ uiSeen = <<VersionResponse, ConfigResponse(cfgMem)>>
    /\ lastArg = NoArg
    /\ effects = <<>>
    /\ invoked = 0
    /\ forwarded = BacklogEntries
    /\ received = <<>>
    /\ lastRecv = "none"
    /\ wpc = "idle"
    /\ waitSlot = 0
    /\ slots = <<>>
    /\ notified = 0
    /\ wire = NoWire

NextBacklog ==
    \/ Interrupt
    \/ LoopHead
    \/ \E arg \in BacklogMessages, saveOk \in BOOLEAN :
          invoked < MaxBurst /\ InvokeHandler(arg, saveOk)
    \/ SendResume
    \/ StepFinished
    \/ IntoInner
    \/ BgJoin
    \/ WorkerRecv
    \/ WorkerRecvClosed
    \/ WorkerExit

SpecBacklog == InitBacklog /\ [][NextBacklog]_vars

\* The worker is a thread of its own: a recv that can return does return.
SpecBacklogFair ==
    SpecBacklog /\ WF_vars(WorkerRecv) /\ WF_vars(WorkerRecvClosed)

----------------------------------------------------------------------------
(* The folder query: a worker that only asks for folders.                  *)

NextQuery ==
    \/ Interrupt
    \/ GuiNew
    \/ SpawnBackend
    \/ LoopHead
    \/ StepDispatch
    \/ StepFinished
    \/ IntoInner
    \/ BgJoin
    \/ WorkerRecvClosed
    \/ WorkerExit
    \/ Len(slots) < MaxQueries /\ ChooseFolder
    \/ \E k \in 1..Len(slots) : WorkerAwait(k)
    \/ WorkerChosen

SpecQuery == Init /\ [][NextQuery]_vars


----------------------------------------------------------------------------
(* Notification runs: a worker that reports numbered status lines while    *)
(* the page saves settings, which the handler answers with a Config        *)
(* evaluated directly.                                                     *)

NotifyMessages == {SaveValid}

NextNotify ==
    \/ Interrupt
    \/ GuiNew
    \/ SpawnBackend
    \/ LoopHead
    \/ \E arg \in NotifyMessages, saveOk \in BOOLEAN :
          invoked < MaxDirect /\ InvokeHandler(arg, saveOk)
    \/ StepDispatch
    \/ StepFinished
    \/ IntoInner
    \/ BgJoin
    \/ WorkerRecvClosed
    \/ WorkerExit
    \/ notified < MaxStatus /\ WorkerNotify(StatusLine(notified + 1))

SpecNotify == Init /\ [][NextNotify]_vars

----------------------------------------------------------------------------
(* Backlog runs in which the worker also asks for a folder and waits for   *)
(* the answer while the page goes on sending commands.                     *)

JamMessages == {[type |-> "Compress"]}

NextJam ==
    \/ LoopHead
    \/ \E arg \in JamMessages, saveOk \in BOOLEAN :
          invoked < MaxBurst /\ InvokeHandler(arg, saveOk)
    \/ SendResume
    \/ StepDispatch
    \/ WorkerRecv
    \/ Len(slots) < MaxSlots /\ ChooseFolder
    \/ \E k \in 1..Len(slots) : WorkerAwait(k)
    \/ WorkerChosen

SpecJam == InitBacklog /\ [][NextJam]_vars

----------------------------------------------------------------------------
(* The encoding of notifications: what GuiWrapper::send and                *)
(* message_dispatch write into the script they have the page evaluate, and *)
(* what the page's Response.dispatch is called with.  Text is a sequence   *)
(* of one-character strings.                                               *)

QUOTE == "\""
BSLASH == "\\"

\* The characters of the names the encoding writes.
TextOf(name) ==
    CASE name = "type" -> <<"t", "y", "p", "e">>
      [] name = "status" -> <<"s", "t", "a", "t", "u", "s">>
      [] name = "pct" -> <<"p", "c", "t">>
      [] name = "path" -> <<"p", "a", "t", "h">>
      [] name = "date" -> <<"d", "a", "t", "e">>
      [] name = "version" -> <<"v", "e", "r", "s", "i", "o", "n">>
      [] name = "decimal" -> <<"d", "e", "c", "i", "m", "a", "l">>
      [] name = "compression" -> <<"c", "o", "m", "p", "r", "e", "s", "s", "i", "o", "n">>
      [] name = "excludes" -> <<"e", "x", "c", "l", "u", "d", "e", "s">>
      [] name = "Status" -> <<"S", "t", "a", "t", "u", "s">>
      [] name = "Folder" -> <<"F", "o", "l", "d", "e", "r">>
      [] name = "Config" -> <<"C", "o", "n", "f", "i", "g">>
      [] name = "Version" -> <<"V", "e", "r", "s", "i", "o", "n">>
      [] name = "Paused" -> <<"P", "a", "u", "s", "e", "d">>
      [] name = "Resumed" -> <<"R", "e", "s", "u", "m", "e", "d">>
      [] name = "Scanned" -> <<"S", "c", "a", "n", "n", "e", "d">>
      [] name = "Stopped" -> <<"S", "t", "o", "p", "p", "e", "d">>
      [] name = "Compacting" -> <<"C", "o", "m", "p", "a", "c", "t", "i", "n", "g">>
      [] name = "LZX" -> <<"L", "Z", "X">>

\* Status lines of up to MaxText characters, with the characters JSON and
\* JavaScript string literals treat specially.
\* A 16-bit unit that is half of a surrogate pair with its other half
\* missing: a Windows path may hold one, a Rust str may not.
LONE == "<D800>"
TextChars == {"a", QUOTE, BSLASH, NL}
Texts == UNION {[1..n -> TextChars] : n \in 0..MaxText}

\* Option<f32>: None, Some(0.0), Some(0.5), Some(NaN).
NoPct == [some |-> FALSE, nan |-> FALSE, tenths |-> 0]
Pct(t) == [some |-> TRUE, nan |-> FALSE, tenths |-> t]
PctNaN == [some |-> TRUE, nan |-> TRUE, tenths |-> 0]
Percents == {NoPct, Pct(0), Pct(5), PctNaN}

UnitResponses == {"Paused", "Resumed", "Scanned", "Stopped", "Compacting"}

\* GuiResponse values (FolderSummary, whose type is not in gui.rs, left out).
WireNotes ==
    {[type |-> "Status", status |-> t, pct |-> p] : t \in Texts, p \in Percents}
    \cup {[type |-> "Folder", path |-> <<"C", ":", BSLASH, c>>] : c \in {"a", LONE}}
    \cup {[type |-> "Config", decimal |-> TRUE, compression |-> TextOf("LZX"),
           excludes |-> <<"a", NL, "*">>]}
    \cup {[type |-> "Version", date |-> <<"d">>, version |-> <<"0", ".", "1">>]}
    \cup {[type |-> u] : u \in UnitResponses}

\* serde_json's string escaping.
RECURSIVE Escape(_)
Escape(s) ==
    IF s = <<>> THEN <<>>
    ELSE (CASE Head(s) = QUOTE -> <<BSLASH, QUOTE>>
            [] Head(s) = BSLASH -> <<BSLASH, BSLASH>>
            [] Head(s) = NL -> <<BSLASH, "n">>
            [] OTHER -> <<Head(s)>>) \o Escape(Tail(s))

\* serde_json::to_string of a string.
SerStr(s) == <<QUOTE>> \o Escape(s) \o <<QUOTE>>

DigitChars == <<"0", "1", "2", "3", "4", "5", "6", "7", "8", "9">>
NullText == <<"n", "u", "l", "l">>

\* serde_json writes a finite f32 as a decimal and any other as null.
SerF32(p) ==
    IF p.nan THEN NullText
    ELSE <<DigitChars[(p.tenths \div 10) + 1], ".", DigitChars[(p.tenths % 10) + 1]>>

SerOption(p) == IF p.some THEN SerF32(p) ELSE NullText

SerBool(b) == IF b THEN <<"t", "r", "u", "e">> ELSE <<"f", "a", "l", "s", "e">>

\* The members #[derive(Serialize)] #[serde(tag = "type")] writes for a
\* GuiResponse: the tag, then the variant's fields in declaration order.
SerMembers(note) ==
    << <<"type", SerStr(TextOf(note.type))>> >> \o
    (CASE note.type = "Status" ->
              << <<"status", SerStr(note.status)>>, <<"pct", SerOption(note.pct)>> >>
       [] note.type = "Folder" -> << <<"path", SerStr(note.path)>> >>
       [] note.type = "Config" ->
              << <<"decimal", SerBool(note.decimal)>>,
                 <<"compression", SerStr(note.compression)>>,
                 <<"excludes", SerStr(note.excludes)>> >>
       [] note.type = "Version" ->
              << <<"date", SerStr(note.date)>>, <<"version", SerStr(note.version)>> >>
       [] OTHER -> <<>>)

RECURSIVE JoinMembers(_)
JoinMembers(ms) ==
    IF ms = <<>> THEN <<>>
    ELSE SerStr(TextOf(ms[1][1])) \o <<":">> \o ms[1][2]
         \o (IF Len(ms) > 1 THEN <<",">> ELSE <<>>) \o JoinMembers(Tail(ms))

\* serde_json::to_string(msg)
ToJson(note) == <<"{">> \o JoinMembers(SerMembers(note)) \o <<"}">>

\* Serialize for a PathBuf fails when Path::to_str gives None; every other
\* field of a GuiResponse always serialises.
Serializes(note) ==
    note.type = "Folder" => \A k \in 1..Len(note.path) : note.path[k] /= LONE

\* GuiWrapper::send: Response.dispatch(JSON.parse(<the JSON text encoded
\* once more, as a string>)).
SendScript(note) == [wrap |-> "parse", text |-> SerStr(ToJson(note))]

\* message_dispatch: Response.dispatch(<the JSON text>).
DirectScript(note) == [wrap |-> "literal", text |-> ToJson(note)]

\* What the page's JavaScript makes of a text: a string, a number (in
\* tenths), a boolean (1 or 0), null.
JsStr(s) == [k |-> "string", s |-> s, n |-> 0]
JsNum(n) == [k |-> "number", s |-> <<>>, n |-> n]
JsBool(b) == [k |-> "boolean", s |-> <<>>, n |-> IF b THEN 1 ELSE 0]
JsNull == [k |-> "null", s |-> <<>>, n |-> 0]
JsFail == [ok |-> FALSE, v |-> JsNull, next |-> 0]

\* How many backslashes stand directly before position p, none before lo.
BackRun(t, lo, p) ==
    CHOOSE k \in 0..(p - lo) :
        /\ \A m \in 1..k : t[p - m] = BSLASH
        /\ k = p - lo \/ t[p - k - 1] /= BSLASH

\* The character at p is the second of an escape pair.
Escaped(t, lo, p) == BackRun(t, lo, p) % 2 = 1

\* The character at p, inside a string literal, as the string holds it.
Unescape(t, lo, p) == IF Escaped(t, lo, p) /\ t[p] = "n" THEN NL ELSE t[p]

\* A string literal starting at position i: up to the first quote that is
\* not escaped; a raw line break or an escape other than \" \\ \n is an
\* error.
JsString(t, i) ==
    IF i > Len(t) \/ t[i] /= QUOTE THEN JsFail
    ELSE LET lo == i + 1
             ends == {j \in lo..Len(t) : t[j] = QUOTE /\ ~Escaped(t, lo, j)}
         IN  IF ends = {} THEN JsFail
             ELSE LET e == CHOOSE j \in ends : \A m \in ends : j <= m
                      Kept(p) == ~(t[p] = BSLASH /\ ~Escaped(t, lo, p))
                      at == SelectSeq([k \in 1..(e - lo) |-> lo + k - 1], Kept)
                      bad == \E q \in lo..(e - 1) :
                                 IF Escaped(t, lo, q)
                                 THEN t[q] \notin {QUOTE, BSLASH, "n"}
                                 ELSE t[q] = NL
                  IN  IF bad THEN JsFail
                      ELSE [ok |-> TRUE,
                            v |-> JsStr(IF at = <<>> THEN <<>>
                                        ELSE [k \in 1..Len(at) |-> Unescape(t, lo, at[k])]),
                            next |-> e + 1]

\* Does text w stand at position i of t?
At(t, i, w) == i + Len(w) - 1 <= Len(t) /\ SubSeq(t, i, i + Len(w) - 1) = w

IsDigit(c) == \E d \in 1..10 : DigitChars[d] = c
DigitVal(c) == (CHOOSE d \in 1..10 : DigitChars[d] = c) - 1

\* A value starting at position i: a string, null, true, false or a number
\* with one digit before and one after the point.
JsValue(t, i) ==
    IF i > Len(t) THEN JsFail
    ELSE IF t[i] = QUOTE THEN JsString(t, i)
    ELSE IF At(t, i, NullText) THEN [ok |-> TRUE, v |-> JsNull, next |-> i + 4]
    ELSE IF At(t, i, SerBool(TRUE)) THEN [ok |-> TRUE, v |-> JsBool(TRUE), next |-> i + 4]
    ELSE IF At(t, i, SerBool(FALSE)) THEN [ok |-> TRUE, v |-> JsBool(FALSE), next |-> i + 5]
    ELSE IF i + 2 <= Len(t) /\ IsDigit(t[i]) /\ t[i + 1] = "." /\ IsDigit(t[i + 2])
         THEN [ok |-> TRUE, v |-> JsNum(10 * DigitVal(t[i]) + DigitVal(t[i + 2])),
               next |-> i + 3]
    ELSE JsFail

\* The members of an object from position i on, up to its closing brace.
RECURSIVE JsMembers(_, _, _)
JsMembers(t, i, acc) ==
    LET key == JsString(t, i)
        val == JsValue(t, key.next + 1)
    IN  IF ~key.ok \/ key.next > Len(t) \/ t[key.next] /= ":" THEN JsFail
        ELSE IF ~val.ok \/ val.next > Len(t) THEN JsFail
        ELSE IF t[val.next] = ","
             THEN JsMembers(t, val.next + 1, acc \cup {<<key.v.s, val.v>>})
        ELSE IF t[val.next] = "}"
             THEN [ok |-> TRUE, v |-> acc \cup {<<key.v.s, val.v>>},
                   next |-> val.next + 1]
        ELSE JsFail

\* An object with members of the values above, as JSON.parse reads it and
\* as the page's JavaScript reads it as an object literal; the whole text
\* must be the object.
JsObject(t) ==
    LET r == IF Len(t) >= 2 /\ t[1] = "{"
             THEN IF t[2] = "}" THEN [ok |-> TRUE, v |-> {}, next |-> 3]
                  ELSE JsMembers(t, 2, {})
             ELSE JsFail
    IN  IF r.ok /\ r.next = Len(t) + 1 THEN [ok |-> TRUE, v |-> r.v]
        ELSE [ok |-> FALSE, v |-> {}]

\* The page evaluates the script: what Response.dispatch is called with.
EvalScript(js) ==
    IF js.wrap = "parse"
    THEN LET lit == JsString(js.text, 1)
         IN  IF lit.ok /\ lit.next = Len(js.text) + 1 THEN JsObject(lit.v.s)
             ELSE [ok |-> FALSE, v |-> {}]
    ELSE JsObject(js.text)

\* Encoding runs: one notification, sent on one of the two paths and then
\* evaluated by the page.
NoScript == [wrap |-> "none", text |-> <<>>]
NoShown == [ok |-> FALSE, v |-> {}]

InitWire ==
    /\ running = TRUE
    /\ pcMain = "check"
    /\ uiAlive = TRUE
    /\ txAlive = TRUE
    /\ rxAlive = TRUE
    /\ mailbox = <<>>
    /\ pending = NoCmd
    /\ dispatchQ = <<>>
    /\ uiSeen = <<>>
    /\ cfgDisk = DefaultConfig
    /\ cfgMem = cfgDisk
    /\ lastArg = NoArg
    /\ effects = <<>>
    /\ invoked = 0
    /\ forwarded = <<>>
    /\ received = <<>>
    /\ lastRecv = "none"
    /\ wpc = "idle"
    /\ waitSlot = 0
    /\ slots = <<>>
    /\ notified = 0
    /\ wire \in {[stage |-> "made", path |-> "none", note |-> n,
                  js |-> NoScript, shown |-> NoShown] : n \in WireNotes}

NotWire ==
    <<running, pcMain, uiAlive, txAlive, rxAlive, mailbox, pending, dispatchQ,
      uiSeen, cfgMem, cfgDisk, lastArg, effects, invoked, forwarded, received,
      lastRecv, wpc, waitSlot, slots, notified>>

\* GuiWrapper::send builds its script; .expect("serialize") panics when
\* the notification does not serialise.
WireSend ==
    /\ wire.stage = "made"
    /\ wire' = IF Serializes(wire.note)
               THEN [wire EXCEPT !.stage = "scripted", !.path = "send",
                                 !.js = SendScript(wire.note)]
               ELSE [wire EXCEPT !.stage = "panicked", !.path = "send"]
    /\ UNCHANGED NotWire

\* message_dispatch builds its script; .expect("serialize") panics when
\* the notification does not serialise.
WireDirect ==
    /\ wire.stage = "made"
    /\ wire' = IF Serializes(wire.note)
               THEN [wire EXCEPT !.stage = "scripted", !.path = "direct",
                                 !.js = DirectScript(wire.note)]
               ELSE [wire EXCEPT !.stage = "panicked", !.path = "direct"]
    /\ UNCHANGED NotWire

\* wv.eval(&js): the page runs the script.
WireEval ==
    /\ wire.stage = "scripted"
    /\ wire' = [wire EXCEPT !.stage = "shown", !.shown = EvalScript(wire.js)]
    /\ UNCHANGED NotWire

NextWire == WireSend \/ WireDirect \/ WireEval

SpecWire == InitWire /\ [][NextWire]_vars

----------------------------------------------------------------------------
(* Properties.                                                             *)

\* The command a blocked send is holding.
InFlight == IF pending = NoCmd THEN <<>> ELSE <<pending>>

\* This step is a call of invoke_handler.
HandlerStep == invoked' = invoked + 1

\* This step is a call of invoke_handler that reaches from_gui.send.
ForwardStep == HandlerStep /\ forwarded' /= forwarded

Parsed == FromStr(lastArg')
LocalTypes == {"OpenUrl", "SaveConfig", "ResetConfig"}

\* What a handler call leaves alone whatever the message.
HandlerFrame ==
    /\ dispatchQ' = dispatchQ
    /\ running' = running
    /\ uiAlive' = uiAlive
    /\ txAlive' = txAlive
    /\ UNCHANGED workerVars
    /\ slots' = slots

C4_ParseFailure ==
    [][HandlerStep /\ ~Parsed.ok =>
          /\ UNCHANGED boxVars
          /\ UNCHANGED cfgVars
          /\ uiSeen' = uiSeen
          /\ effects' = <<[op |-> "eprintln"]>>
          /\ pcMain' = "check"
          /\ HandlerFrame
      ]_vars

\* C4 witness: a message with an unknown tag was dropped after an earlier
\* command had been forwarded, which is still pending.
C4_Witness ==
    /\ lastArg = [type |-> "Bogus"]
    /\ effects = <<[op |-> "eprintln"]>>
    /\ invoked = 2
    /\ Len(mailbox) = 1
    /\ pcMain = "check"

\* The settings a SaveConfig payload stands for, stated from the payload.
PayloadScheme(name) ==
    IF name \in {SchemeNames[c] : c \in Schemes} THEN name ELSE "XPRESS8K"

PayloadValid(arg) ==
    \A i \in 1..Len(Split(arg.excludes)) : ~BadGlob(Split(arg.excludes)[i])

IsSave == HandlerStep /\ Parsed.ok /\ Parsed.val.type = "SaveConfig"

\* C5: a SaveConfig whose patterns the validator refuses changes neither the
\* settings in memory nor those on disk, raises exactly one modal error,
\* sends no Config notification and puts nothing in the mailbox.
C5_SaveInvalid ==
    [][IsSave /\ ~PayloadValid(Parsed.val) =>
          /\ UNCHANGED cfgVars
          /\ Len(Modals(effects')) = 1
          /\ effects' = Modals(effects')
          /\ uiSeen' = uiSeen
          /\ dispatchQ' = dispatchQ
          /\ UNCHANGED boxVars
      ]_vars

\* C5 witness: a SaveConfig with an unclosed character class was refused
\* while the settings differ from what it asked for.
C5_Witness ==
    /\ lastArg = SaveBadGlob
    /\ Len(effects) = 1
    /\ effects[1].op = "modal"
    /\ cfgMem = DefaultConfig

\* C6: a valid SaveConfig sends exactly one Config notification, carrying
\* the payload's flag, the canonical name of its scheme and its patterns,
\* before anything else; then the settings in memory are replaced and the
\* save is attempted; a failed save raises a modal error and nothing more:
\* no further notification, the settings in memory stay the new ones, those
\* on disk the old ones.
C6_SaveValid ==
    [][IsSave /\ PayloadValid(Parsed.val) =>
          LET p == Parsed.val
              s == [decimal |-> p.decimal,
                    compression |-> CHOOSE c \in Schemes :
                                        SchemeNames[c] = PayloadScheme(p.compression),
                    excludes |-> Split(p.excludes)]
          IN  /\ Len(effects') \in {3, 4}
              /\ effects'[1] = [op |-> "eval",
                                msg |-> [type |-> "Config", decimal |-> p.decimal,
                                         compression |-> PayloadScheme(p.compression),
                                         excludes |-> p.excludes]]
              /\ effects'[2] = [op |-> "replace", cfg |-> s]
              /\ effects'[3].op = "save"
              /\ Len(Evals(effects')) = 1
              /\ uiSeen' = Append(uiSeen, effects'[1].msg)
              /\ dispatchQ' = dispatchQ
              /\ cfgMem' = s
              /\ IF effects'[3].ok
                 THEN Len(effects') = 3 /\ cfgDisk' = s
                 ELSE /\ Len(effects') = 4
                      /\ effects'[4].op = "modal"
                      /\ cfgDisk' = cfgDisk
              /\ UNCHANGED boxVars
      ]_vars

\* C6 witness: a valid SaveConfig was notified and applied, its save failed:
\* the settings in memory are the new ones, those on disk the old ones.
C6_Witness ==
    /\ lastArg = SaveValid
    /\ Len(effects) = 4
    /\ effects[3] = [op |-> "save", ok |-> FALSE]
    /\ cfgMem /= cfgDisk
    /\ cfgMem.excludes = << <<"a">>, <<"*">> >>

\* C7: a ResetConfig does what a SaveConfig carrying the default settings
\* does from the same state: the same effects in the same order (one Config
\* notification with the default snapshot, the replacement, the save, a
\* modal error if the save failed), the same settings in memory and on disk
\* afterwards; the default settings pass validation, so this is never the
\* refusal path.
C7_ResetAsSave ==
    [][HandlerStep /\ Parsed.ok /\ Parsed.val.type = "ResetConfig" =>
          \E saveOk \in BOOLEAN :
              LET r == SaveConfigArm(SaveDefaults.decimal, SaveDefaults.compression,
                                     SaveDefaults.excludes, saveOk, cfgMem, cfgDisk)
              IN  /\ PayloadValid(SaveDefaults)
                  /\ effects' = r.effects
                  /\ cfgMem' = r.mem
                  /\ cfgDisk' = r.disk
                  /\ effects'[1] = [op |-> "eval", msg |-> ConfigResponse(DefaultConfig)]
                  /\ effects'[2] = [op |-> "replace", cfg |-> DefaultConfig]
                  /\ effects'[3] = [op |-> "save", ok |-> saveOk]
                  /\ Len(Evals(effects')) = 1
                  /\ Len(Modals(effects')) = (IF saveOk THEN 0 ELSE 1)
                  /\ uiSeen' = Append(uiSeen, ConfigResponse(DefaultConfig))
                  /\ cfgMem' = DefaultConfig
                  /\ UNCHANGED boxVars
      ]_vars

\* C7 witness: a ResetConfig from settings that were not the default ones,
\* whose save failed.
C7_Witness ==
    /\ lastArg = [type |-> "ResetConfig"]
    /\ Len(effects) = 4
    /\ cfgMem = DefaultConfig
    /\ cfgDisk /= DefaultConfig


IsPrefix(a, b) == Len(a) <= Len(b) /\ SubSeq(b, 1, Len(a)) = a

\* C8 as stated: every call of choose_folder delivers exactly one value
\* through its own receiver: one write at most, one read at most, only the
\* value of its own picker, and once its sender is gone the caller that still
\* holds the receiver has, or has had, exactly one value.
C8_Original ==
    \A k \in 1..Len(slots) :
        LET sl == slots[k]
        IN  /\ Len(sl.picked) <= 1
            /\ Len(sl.got) <= 1
            /\ IsPrefix(sl.got \o sl.buf, sl.picked)
            /\ sl.tx = "dropped" /\ sl.rx = "held" => Len(sl.got \o sl.buf) = 1

\* C8, amended: every call delivers at most one value through its own
\* receiver, and exactly one when its picker closure has run while the caller
\* held the receiver: one write at most, one read at most, nothing delivered
\* twice or lost, and only the value of the call's own picker.  A call whose
\* closure was dropped unrun, or has not run, has delivered nothing.
C8_OneShot ==
    \A k \in 1..Len(slots) :
        LET sl == slots[k]
        IN  /\ Len(sl.picked) <= 1
            /\ Len(sl.got) <= 1
            /\ Len(sl.buf) <= SlotCap
            /\ IsPrefix(sl.got \o sl.buf, sl.picked)
            /\ Len(sl.picked) = 1 /\ sl.rx = "held" => sl.got \o sl.buf = sl.picked
            /\ sl.tx = "queued" => sl.picked = <<>>

\* C8 witness: two calls are outstanding; the second receiver has returned
\* the "none" of its own picker while the path picked for the first is still
\* waiting in the first's slot.
C8_Witness ==
    /\ Len(slots) = 2
    /\ slots[1].buf = <<Some("C:/a")>>
    /\ slots[1].got = <<>>
    /\ slots[2].got = <<None>>
    /\ slots[2].picked = <<None>>

\* The pump loop has been left.
Exited == {"teardown", "join", "done"}

\* C9: when the loop head reads the flag as stop it does not go on to
\* webview.step, and once the loop is left no step is taken any more (no
\* handler call, no dispatched closure run, nothing evaluated in the page);
\* the webview is torn down before the join, and spawn_gui is done only when
\* the worker thread has ended.
C9_Shutdown ==
    [][/\ pcMain = "check" /\ ~running => pcMain' \in {"check", "teardown"}
       /\ pcMain \in Exited =>
             /\ pcMain' \in Exited
             /\ invoked' = invoked
             /\ uiSeen' = uiSeen
             /\ Len(dispatchQ') >= Len(dispatchQ)
       /\ pcMain' = "teardown" => uiAlive'
       /\ pcMain' = "join" => ~uiAlive'
       /\ pcMain' = "done" => ~uiAlive' /\ wpc' = "ended"
       /\ pcMain' = "done" /\ pcMain /= "done" => pcMain = "join" /\ wpc = "ended"
      ]_vars

\* C9 witness: the flag was flipped, the loop left with a closure still
\* queued, the webview torn down, the worker ended, and spawn_gui is done.
C9_Witness ==
    /\ pcMain = "done"
    /\ ~running
    /\ dispatchQ /= <<>>
    /\ wpc = "ended"
    /\ ~uiAlive

\* C10: tearing the webview down releases the only sender; from then on a
\* worker that is at its dequeue gets out of it: it is handed the entries
\* still pending, in order, and then the mailbox-closed outcome (unless an
\* entry it is handed ends its loop first).  The closed outcome comes only
\* when nothing is pending and everything forwarded has been delivered.
C10_Closed ==
    /\ [](pcMain \in {"join", "done"} => ~txAlive)
    /\ [](lastRecv = "closed" => mailbox = <<>> /\ received = forwarded /\ ~txAlive)
    /\ []((~txAlive /\ wpc = "idle") =>
              <>(lastRecv = "closed" \/ wpc \in {"quitting", "ended"}))
    /\ []((pcMain = "join" /\ wpc = "idle") =>
              <>(lastRecv = "closed" \/ wpc \in {"quitting", "ended"}))

\* C10 witness: the sender is gone, the worker was handed the whole backlog
\* and what was sent after it, and then the mailbox-closed outcome.
C10_Witness ==
    /\ lastRecv = "closed"
    /\ ~txAlive
    /\ Len(received) > Backlog
    /\ received = forwarded

\* C11: a command forwarded after the worker has ended and released the
\* receiving end of the mailbox is a normal end of the work: the callback
\* returns to the pump and the UI thread does not crash, neither in a send
\* that starts then nor in a send that was waiting for room.
C11_ClosedIsNormal ==
    [][~rxAlive /\ pcMain \in {"step", "sending"} => pcMain' /= "panicked"]_vars

\* Everything but the lifecycle flag.
NotFlag ==
    <<pcMain, uiAlive, txAlive, rxAlive, mailbox, pending, dispatchQ, uiSeen,
      cfgMem, cfgDisk, lastArg, effects, invoked, forwarded, received,
      lastRecv, wpc, waitSlot, slots, notified, wire>>

\* C15: the lifecycle flag starts as running; a step that changes it takes
\* it from running to stop and does nothing else (it is the interrupt
\* handler's store, no step of the pump, the callback or the worker); once
\* it reads stop it reads stop in every later state, however often the
\* handler fires.
C15_FlagMonotonic ==
    /\ running = TRUE
    /\ [][/\ ~running => ~running'
          /\ running' /= running => running /\ ~running' /\ UNCHANGED NotFlag
         ]_vars

\* C15 witness: the flag was flipped while the pump was running and the
\* whole shutdown went through with the flag still at stop.
C15_Witness ==
    /\ ~running
    /\ pcMain = "done"
    /\ invoked = MaxInvoke
    /\ dispatchQ = <<>>

\* This step runs the picker closure of call k and the user cancels.
Cancelled(k) ==
    /\ k \in 1..Len(slots)
    /\ slots[k].picked = <<>>
    /\ slots'[k].picked = <<None>>

\* C16: when the picker is cancelled or fails, the call's receiver yields
\* none as its single value; and neither the call of choose_folder nor the
\* run of its picker sends a notification (so no Folder notification),
\* enqueues a command or changes the settings.
C16_CancelYieldsNone ==
    [][/\ Len(slots') = Len(slots) + 1 =>
             /\ uiSeen' = uiSeen
             /\ dispatchQ' \in {dispatchQ, Append(dispatchQ, PickClosure(Len(slots')))}
             /\ UNCHANGED <<boxVars, cfgVars>>
       /\ \A k \in 1..Len(slots) :
             /\ Cancelled(k) =>
                   /\ slots'[k].buf = (IF slots[k].rx = "held" THEN <<None>> ELSE <<>>)
                   /\ uiSeen' = uiSeen
                   /\ dispatchQ' = Tail(dispatchQ)
                   /\ UNCHANGED <<boxVars, cfgVars>>
             /\ slots[k].picked = <<None>> /\ slots'[k].got /= slots[k].got =>
                   /\ slots'[k].got = <<None>>
                   /\ slots'[k].buf = <<>>
                   /\ uiSeen' = uiSeen
                   /\ dispatchQ' = dispatchQ
             /\ slots[k].picked = <<None>> /\ slots[k].rx = "held" =>
                   slots[k].got \o slots[k].buf = <<None>>
       /\ \A i \in 1..Len(uiSeen') : uiSeen'[i].type /= "Folder"
       /\ \A i \in 1..Len(dispatchQ') : dispatchQ'[i].msg.type /= "Folder"
      ]_vars

\* C16 witness: the only call's picker was cancelled, the worker's recv has
\* returned none, and the page has seen the two notifications of the
\* construction and nothing else.
C16_Witness ==
    /\ Len(slots) = 1
    /\ slots[1].picked = <<None>>
    /\ slots[1].got = <<None>>
    /\ slots[1].buf = <<>>
    /\ Len(uiSeen) = 2
    /\ dispatchQ = <<>>

\* C20: a SaveConfig whose scheme name is not a scheme's name and whose
\* patterns are valid is not refused: one Config notification naming the
\* default scheme, then the settings in memory replaced by the snapshot with
\* the default scheme, then the save attempted; no modal error unless the
\* save fails.
C20_UnknownScheme ==
    [][IsSave /\ PayloadValid(Parsed.val)
         /\ Parsed.val.compression \notin {SchemeNames[c] : c \in Schemes} =>
          LET p == Parsed.val
              s == [decimal |-> p.decimal, compression |-> DefaultScheme,
                    excludes |-> Split(p.excludes)]
          IN  /\ effects'[1] = MessageDispatch(
                                  [type |-> "Config", decimal |-> p.decimal,
                                   compression |-> SchemeNames[DefaultScheme],
                                   excludes |-> p.excludes])
              /\ effects'[2] = [op |-> "replace", cfg |-> s]
              /\ effects'[3].op = "save"
              /\ Len(Evals(effects')) = 1
              /\ Len(Modals(effects')) = (IF effects'[3].ok THEN 0 ELSE 1)
              /\ uiSeen' = Append(uiSeen, effects'[1].msg)
              /\ cfgMem' = s
              /\ cfgDisk' = (IF effects'[3].ok THEN s ELSE cfgDisk)
              /\ UNCHANGED boxVars
      ]_vars

\* C20 witness: a SaveConfig naming the scheme "ZIP" was applied and saved
\* with the default scheme, without a modal error, over settings that had
\* another scheme.
C20_Witness ==
    /\ lastArg = SaveUnknownScheme
    /\ cfgMem.compression = DefaultScheme
    /\ cfgMem.excludes = Split(SaveUnknownScheme.excludes)
    /\ cfgDisk = cfgMem
    /\ Modals(effects) = <<>>
    /\ uiSeen[Len(uiSeen)].compression = "XPRESS8K"
    /\ \E i \in 1..Len(uiSeen) : uiSeen[i].type = "Config" /\ uiSeen[i].compression = "LZX"

\* The Config the handler evaluates directly in a notification run; no
\* settings persistence::init() loads give the same notification.
DirectConfig ==
    ConfigResponse([decimal |-> SaveValid.decimal,
                    compression |-> UnwrapOrDefault(ParseCompression(SaveValid.compression)),
                    excludes |-> Split(SaveValid.excludes)])

\* What came to the page through the status channel, then what is queued
\* for it, in a notification run.
ChannelSeen == SelectSeq(uiSeen, LAMBDA m : m /= DirectConfig)
Queued == [i \in 1..Len(dispatchQ) |-> dispatchQ[i].msg]
Channel == ChannelSeen \o Queued
StatusOf(seq) == SelectSeq(seq, LAMBDA m : m.type = "Status")

\* C12: GuiWrapper::new schedules exactly two notifications, the Version
\* and then a Config with the settings as loaded, with nothing scheduled or
\* seen before and the worker not yet started; so in every later state the
\* status channel begins with those two and every notification of the worker
\* comes after them.
C12_Banner ==
    [][/\ pcMain = "new" /\ pcMain' /= "new" =>
             /\ dispatchQ = <<>> /\ uiSeen = <<>>
             /\ cfgMem = cfgDisk
             /\ dispatchQ' = <<EvalClosure(VersionResponse),
                               EvalClosure(ConfigResponse(cfgDisk))>>
             /\ uiSeen' = uiSeen
             /\ wpc = "unstarted" /\ wpc' = "unstarted" /\ notified' = 0
             /\ pcMain' = "spawn"
       /\ pcMain' = "new" => wpc' = "unstarted" /\ notified' = 0
       /\ pcMain' /= "new" =>
             /\ Len(Channel') >= 2
             /\ Channel'[1] = VersionResponse
             /\ Channel'[2] \in {ConfigResponse(c) : c \in InitConfigs}
             /\ \A i \in 3..Len(Channel') : Channel'[i].type = "Status"
             /\ \A i \in 1..Len(uiSeen') :
                   uiSeen'[i].type = "Status" =>
                       /\ i > 2
                       /\ VersionResponse \in {uiSeen'[j] : j \in 1..(i-1)}
                       /\ Channel'[2] \in {uiSeen'[j] : j \in 1..(i-1)}
      ]_vars

\* C12 witness: the page has seen the Version, the Config of the loaded
\* (non-default) settings and then the worker's first status line, and the
\* second is queued.
C12_Witness ==
    /\ uiSeen = <<VersionResponse,
                  ConfigResponse([decimal |-> TRUE, compression |-> 4,
                                  excludes |-> << <<"a">> >>]),
                  StatusLine(1)>>
    /\ Queued = <<StatusLine(2)>>

\* This step is a call of GuiWrapper::send by the worker.
NotifyStep == notified' = notified + 1

\* C13: a send by the worker returns at once: the worker goes on, nothing
\* has been shown to the page yet; with the webview there the notification
\* is queued behind what is queued, with the webview gone it is dropped and
\* nothing else happens: the caller sees no error and does not stop, and
\* the mailbox, the settings, the flag and the main thread stay as they were.
C13_FireAndForget ==
    [][NotifyStep =>
          /\ wpc = "idle" /\ wpc' = "idle"
          /\ uiSeen' = uiSeen
          /\ IF uiAlive
             THEN dispatchQ' = Append(dispatchQ, EvalClosure(StatusLine(notified')))
             ELSE dispatchQ' = dispatchQ
          /\ UNCHANGED <<boxVars, cfgVars, running, pcMain, uiAlive, txAlive,
                         rxAlive, received, lastRecv, waitSlot, slots,
                         handlerVars>>
      ]_vars

\* C13 witness: the webview is gone, the worker has sent all its status
\* lines, the last ones after the teardown, and is still at work; the lines
\* sent after the teardown are nowhere.
C13_Witness ==
    /\ ~uiAlive
    /\ notified = MaxStatus
    /\ Len(StatusOf(Channel)) = 1
    /\ wpc = "idle"
    /\ pcMain = "join"

\* C14: the status lines the page has seen and those queued for it are, in
\* this order, the lines 1, 2, ... the worker sent: none before it was sent,
\* none twice, none out of place, and while the webview is there none
\* missing; the page has seen them in that order.  A Config the handler
\* evaluates is shown at once, whatever is queued, so it has no fixed place
\* among them.
C14_Order ==
    [][/\ LET st == StatusOf(Channel')
          IN  /\ \A i \in 1..Len(st) : st[i] = StatusLine(i)
              /\ Len(st) <= notified'
              /\ uiAlive' => Len(st) = notified'
              /\ StatusOf(uiSeen') = SubSeq(st, 1, Len(StatusOf(uiSeen')))
       /\ Len(ChannelSeen') >= Len(ChannelSeen)
       /\ ChannelSeen' /= ChannelSeen =>
             /\ dispatchQ /= <<>>
             /\ ChannelSeen' = Append(ChannelSeen, Head(dispatchQ).msg)
             /\ dispatchQ' = Tail(dispatchQ)
       /\ HandlerStep =>
             /\ uiSeen' = Append(uiSeen, DirectConfig)
             /\ dispatchQ' = dispatchQ
      ]_vars

\* C14 witness: the page has seen the worker's lines 1 and 2 in order with
\* the handler's Config between them, and line 3 is queued.
C14_Witness ==
    /\ Len(uiSeen) = 5
    /\ uiSeen[3] = StatusLine(1)
    /\ uiSeen[4] = DirectConfig
    /\ uiSeen[5] = StatusLine(2)
    /\ Queued = <<StatusLine(3)>>

\* C18: the UI thread is never blocked in from_gui.send on a full mailbox
\* while the worker is blocked in recv on a folder receiver whose picker
\* closure still waits in the UI thread's queue.
C18_NoJam ==
    ~(/\ pcMain = "sending"
      /\ Len(mailbox) = MailboxCap
      /\ wpc = "waiting"
      /\ slots[waitSlot].tx = "queued"
      /\ slots[waitSlot].buf = <<>>
      /\ \E i \in 1..Len(dispatchQ) : dispatchQ[i] = PickClosure(waitSlot))

\* C19: once the pump loop is left, a worker that waits on a folder receiver
\* can come back from its recv: the slot holds the value or its sender has
\* been released; so bg.join() is not waiting for a worker that waits for a
\* closure nobody will run.
C19_Unblocked ==
    pcMain \in {"join", "done"} /\ wpc = "waiting" => SlotCanReturn(slots[waitSlot])

\* The value a notification stands for on the page: its tag and its fields
\* by name, an absent percentage as null, a percentage as its number.
NotANumber == [k |-> "number", s |-> <<"N", "a", "N">>, n |-> 0]

FieldsOf(note) ==
    {<<TextOf("type"), JsStr(TextOf(note.type))>>} \cup
    (CASE note.type = "Status" ->
              {<<TextOf("status"), JsStr(note.status)>>,
               <<TextOf("pct"), IF ~note.pct.some THEN JsNull
                                ELSE IF note.pct.nan THEN NotANumber
                                ELSE JsNum(note.pct.tenths)>>}
       [] note.type = "Folder" -> {<<TextOf("path"), JsStr(note.path)>>}
       [] note.type = "Config" ->
              {<<TextOf("decimal"), JsBool(note.decimal)>>,
               <<TextOf("compression"), JsStr(note.compression)>>,
               <<TextOf("excludes"), JsStr(note.excludes)>>}
       [] note.type = "Version" ->
              {<<TextOf("date"), JsStr(note.date)>>,
               <<TextOf("version"), JsStr(note.version)>>}
       [] OTHER -> {})

\* C17: for every notification, on either path, the page's dispatcher is
\* called, with a value equal to the notification in every field.
C17_RoundTripAll ==
    /\ wire.stage /= "panicked"
    /\ wire.stage = "shown" => wire.shown = [ok |-> TRUE, v |-> FieldsOf(wire.note)]

\* A Status whose percentage is present and not a finite number.
NonFinite(note) == note.type = "Status" /\ note.pct.some /\ note.pct.nan

\* What does hold of the encodings: a notification that serialises reaches
\* the dispatcher, equal in every field unless its percentage is not
\* finite, which arrives as null as an absent one does; the two paths give
\* the same value, and an absent percentage differs from a present zero.
RoundTripFinite ==
    /\ wire.stage = "panicked" => ~Serializes(wire.note)
    /\ wire.stage = "shown" =>
          /\ wire.shown.ok
          /\ IF NonFinite(wire.note)
             THEN wire.shown.v = FieldsOf([wire.note EXCEPT !.pct = NoPct])
             ELSE wire.shown.v = FieldsOf(wire.note)
    /\ wire.stage = "scripted" =>
          /\ EvalScript(SendScript(wire.note)) = EvalScript(DirectScript(wire.note))
          /\ wire.note.type = "Status" /\ ~NonFinite(wire.note) =>
                \A p \in {NoPct, Pct(0)} :
                    p /= wire.note.pct =>
                        EvalScript(SendScript([wire.note EXCEPT !.pct = p])).v
                            /= EvalScript(SendScript(wire.note)).v

\* A status line made of a quote and a backslash, with the percentage
\* present and zero, came through the double encoding of send.
RoundTripReached ==
    /\ wire.stage = "shown"
    /\ wire.path = "send"
    /\ wire.note.type = "Status"
    /\ wire.note.status = <<QUOTE, BSLASH>>
    /\ wire.note.pct = Pct(0)
    /\ <<TextOf("status"), JsStr(<<QUOTE, BSLASH>>)>> \in wire.shown.v
    /\ <<TextOf("pct"), JsNum(0)>> \in wire.shown.v

\* The two ways the round trip fails: a percentage that is not a number is
\* shown as no percentage, and a folder path that is not Unicode panics.
NaNShownAsNone ==
    /\ wire.stage = "shown"
    /\ NonFinite(wire.note)
    /\ <<TextOf("pct"), JsNull>> \in wire.shown.v

PathPanics == wire.stage = "panicked" /\ wire.note.type = "Folder"

============================================================================
